---- MODULE Spec2Model ----
(***************************************************************************)
(* Model of gym_electric_motor/visualization/motor_dashboard.py:           *)
(* class MotorDashboard (constructor, reset, step, set_modules,            *)
(* _initialize, _update).                                                   *)
(*                                                                         *)
(* The plotting library (matplotlib) and the plot classes of               *)
(* motor_dashboard_plots are external: every call the dashboard issues to  *)
(* them is recorded, in program order, in the call log of the handler that *)
(* issued it.  Calls on plot instances and on the plotting library are     *)
(* taken to return normally.                                               *)
(*                                                                         *)
(* plt.pause(0.1), the last statement of _initialize, runs the GUI event   *)
(* loop: a step() that creates the surface is suspended there, and         *)
(* callbacks dispatched by the event loop may call reset(), set_modules()  *)
(* or step() on the dashboard before it resumes.  Their calls are entered  *)
(* in the log of the suspended step() with depth 1.                        *)
(*                                                                         *)
(* Encodings.  A Python string is a sequence of one-character strings, so  *)
(* that str.startswith is computed and not assumed.  A bool passed through *)
(* to the plots (done) is 0 or 1.  None is the record NoFigure.            *)
(***************************************************************************)
EXTENDS Integers, Sequences, FiniteSets, TLC

(* ------------------------------ bounds -------------------------------- *)
MaxPlots == 3
MaxK == 2
MaxCycle == 2
MaxCalls == 2
MaxNested == 1

(* ------------------------------ inputs -------------------------------- *)
TagReward == <<"r", "e", "w", "a", "r", "d">>
TagAction0 == <<"a", "c", "t", "i", "o", "n", "_", "0">>
\* A state name; it is a proper prefix of 'action_'.
TagActionBare == <<"a", "c", "t", "i", "o", "n">>
ActionPrefix == <<"a", "c", "t", "i", "o", "n", "_">>

Tags == {TagReward, TagAction0, TagActionBare}

StrSpec(tag) == [type |-> "str", val |-> tag]
ObjSpec(name) == [type |-> "obj", val |-> <<name>>]

\* Non-string elements of the documented input domain (lines 20-21: "a
\* string or an already instantiated MotorDashboardPlot"), plus an instance
\* of an unrelated type.
PlotInstance == ObjSpec("PlotInstance")
OtherObject == ObjSpec("OtherObject")
ObjectSpecs == {PlotInstance, OtherObject}

PlotSpecs == {StrSpec(t) : t \in Tags} \cup ObjectSpecs

SeqsUpTo(S, n) == UNION {[1..m -> S] : m \in 0..n}

Backends == {"NbAgg", "TkAgg"}
StepTuples == {<<k, 10 + k, 20, 30, 40, k % 2>> : k \in 0..MaxK}
Modules == {<<1, 2, 3>>}

(* --------------------------- external calls --------------------------- *)
Ev(call, plot, arg) == [call |-> call, plot |-> plot, arg |-> arg, depth |-> 0]

\* The calls of a handler entered from a callback, as they appear in the
\* log of the step() suspended in plt.pause.
Nest(calls) == [i \in 1..Len(calls) |-> [calls[i] EXCEPT !.depth = 1]]

NoFigure == [set |-> FALSE, naxes |-> 0]
Figure(n) == [set |-> TRUE, naxes |-> n]

\* plt.subplots(n, sharex=True) returns (figure, axes); axes is one Axes
\* object when n = 1 and an array of n Axes otherwise.
Subplots(n) ==
  [figure |-> Figure(n),
   axes |-> [scalar |-> (n = 1), ids |-> [i \in 1..n |-> i]]]

(* ----------------------------- constructor ---------------------------- *)
StartsWith(s, p) == Len(s) >= Len(p) /\ SubSeq(s, 1, Len(p)) = p

Plot(kind, arg) == [kind |-> kind, arg |-> arg]

\* issubclass(obj, mdp.MotorDashboardPlot): TypeError when obj is not a
\* class, else the subclass test.
IsSubclass(obj) ==
  CASE obj.val = <<"PlotSubclass">> -> "True"
    [] obj.val = <<"OtherClass">> -> "False"
    [] OTHER -> "TypeError"

\* One iteration of the constructor's loop: the plot appended, or the
\* exception raised.
ResolvePlot_bare(plot) ==
  IF plot.type = "str"
  THEN IF plot.val = TagReward
       THEN [raised |-> "none", plot |-> Plot("RewardPlot", <<>>)]
       ELSE IF StartsWith(plot.val, TagActionBare)
            THEN [raised |-> "none", plot |-> Plot("ActionPlot", plot.val)]
            ELSE [raised |-> "none", plot |-> Plot("StatePlot", plot.val)]
  ELSE LET sub == IsSubclass(plot) IN
       IF sub = "TypeError"
       THEN [raised |-> "TypeError", plot |-> Plot("none", <<>>)]
       ELSE IF sub = "False"
            THEN [raised |-> "AssertionError", plot |-> Plot("none", <<>>)]
            ELSE [raised |-> "none", plot |-> Plot("object", plot.val)]

ResolvePlot(plot) ==
  IF plot.type = "str"
  THEN IF plot.val = TagReward
       THEN [raised |-> "none", plot |-> Plot("RewardPlot", <<>>)]
       ELSE IF StartsWith(plot.val, ActionPrefix)
            THEN [raised |-> "none", plot |-> Plot("ActionPlot", plot.val)]
            ELSE [raised |-> "none", plot |-> Plot("StatePlot", plot.val)]
  ELSE LET sub == IsSubclass(plot) IN
       IF sub = "TypeError"
       THEN [raised |-> "TypeError", plot |-> Plot("none", <<>>)]
       ELSE IF sub = "False"
            THEN [raised |-> "AssertionError", plot |-> Plot("none", <<>>)]
            ELSE [raised |-> "none", plot |-> Plot("object", plot.val)]

\* The loop of __init__ over the first n elements: stops at the first
\* element that raises.
RECURSIVE CtorLoop(_, _)
CtorLoop(plots_in, n) ==
  IF n = 0
  THEN [raised |-> "none", plots |-> <<>>]
  ELSE LET prev == CtorLoop(plots_in, n - 1) IN
       IF prev.raised # "none"
       THEN prev
       ELSE LET r == ResolvePlot(plots_in[n]) IN
            IF r.raised # "none"
            THEN [raised |-> r.raised, plots |-> prev.plots]
            ELSE [raised |-> "none", plots |-> Append(prev.plots, r.plot)]

CtorRes_strict(plots_in) ==
  IF Len(plots_in) = 0
  THEN [raised |-> "AssertionError", plots |-> <<>>]
  ELSE CtorLoop(plots_in, Len(plots_in))

CtorRes(plots_in) == CtorLoop(plots_in, Len(plots_in))

(* ------------------------- reset, set_modules ------------------------- *)
ResetRes_reinit(ps, fig) ==
  [raised |-> "none", figure |-> NoFigure,
   calls |-> [i \in 1..Len(ps) |-> Ev("reset", i, <<>>)]]

ResetRes(ps, fig) ==
  [raised |-> "none", figure |-> fig,
   calls |-> [i \in 1..Len(ps) |-> Ev("reset", i, <<>>)]]

SetModulesRes(ps, fig, mods) ==
  [raised |-> "none", figure |-> fig,
   calls |-> [i \in 1..Len(ps) |-> Ev("set_modules", i, mods)]]

(* ----------------------------- _initialize ---------------------------- *)
InitPrologue(n, dark) ==
  (IF dark THEN <<Ev("plt.style.use", 0, <<>>)>> ELSE <<>>)
  \o <<Ev("plt.subplots", 0, <<n>>),
       Ev("subplots_adjust", 0, <<>>),
       Ev("plt.xlabel", 0, <<>>)>>

\* zip(self._plots, axes): iterating a single Axes object is a TypeError.
ZipInitialize(ps, axes) ==
  IF axes.scalar
  THEN [raised |-> "TypeError", calls |-> <<>>]
  ELSE [raised |-> "none",
        calls |-> [i \in 1..(IF Len(ps) < Len(axes.ids) THEN Len(ps) ELSE Len(axes.ids))
                     |-> Ev("initialize", i, <<axes.ids[i]>>)]
                  \o <<Ev("plt.pause", 0, <<>>)>>]

InitializeRes_nospecial(ps, fig, dark) ==
  IF ~(Len(ps) > 0)
  THEN [raised |-> "AssertionError", figure |-> fig,
        calls |-> <<Ev("plt.close", 0, <<>>)>>]
  ELSE LET sp == Subplots(Len(ps))
           z == ZipInitialize(ps, sp.axes)
       IN [raised |-> z.raised, figure |-> sp.figure,
           calls |-> <<Ev("plt.close", 0, <<>>)>> \o InitPrologue(Len(ps), dark) \o z.calls]

InitializeRes(ps, fig, dark) ==
  IF ~(Len(ps) > 0)
  THEN [raised |-> "AssertionError", figure |-> fig,
        calls |-> <<Ev("plt.close", 0, <<>>)>>]
  ELSE LET sp == Subplots(Len(ps))
           z == IF Len(ps) < 2
                THEN [raised |-> "none",
                      calls |-> <<Ev("initialize", 1, sp.axes.ids),
                                  Ev("plt.pause", 0, <<>>)>>]
                ELSE ZipInitialize(ps, sp.axes)
       IN [raised |-> z.raised, figure |-> sp.figure,
           calls |-> <<Ev("plt.close", 0, <<>>)>> \o InitPrologue(Len(ps), dark) \o z.calls]

(* ------------------------------- _update ------------------------------ *)
PlotUpdates(ps) == [i \in 1..Len(ps) |-> Ev("update", i, <<>>)]

\* self._figure.canvas on None is an AttributeError.
UpdateRes_alwaysdraw(ps, fig, backend) ==
  IF ~fig.set
  THEN [raised |-> "AttributeError", calls |-> PlotUpdates(ps)]
  ELSE [raised |-> "none",
        calls |-> PlotUpdates(ps)
                  \o <<Ev("canvas.draw", 0, <<>>)>>
                  \o <<Ev("canvas.flush_events", 0, <<>>)>>]

UpdateRes(ps, fig, backend) ==
  IF ~fig.set
  THEN [raised |-> "AttributeError", calls |-> PlotUpdates(ps)]
  ELSE [raised |-> "none",
        calls |-> PlotUpdates(ps)
                  \o (IF backend = "NbAgg" THEN <<Ev("canvas.draw", 0, <<>>)>> ELSE <<>>)
                  \o <<Ev("canvas.flush_events", 0, <<>>)>>]

(* -------------------------------- step -------------------------------- *)
\* not self._figure
FigureUnset_always(fig) == TRUE

FigureUnset(fig) == ~fig.set

\* (k + 1) % self._update_cycle == 0
RedrawDue_offbyone(k, uc) == k % uc = 0

RedrawDue(k, uc) == (k + 1) % uc = 0

PlotSteps(ps, t) == [i \in 1..Len(ps) |-> Ev("step", i, t)]

\* Lines 66-67 of step(): the lazy creation of the surface.
StepHead_noinit(ps, fig, dark) ==
  [raised |-> "none", figure |-> fig, calls |-> <<>>]

StepHead(ps, fig, dark) ==
  IF FigureUnset(fig)
  THEN InitializeRes(ps, fig, dark)
  ELSE [raised |-> "none", figure |-> fig, calls |-> <<>>]

\* Lines 68-71 of step(): the fan-out to the plots, then the redraw.
StepTail_updatefirst(ps, fig, uc, backend, t) ==
  LET upd == IF RedrawDue(t[1], uc)
             THEN UpdateRes(ps, fig, backend)
             ELSE [raised |-> "none", calls |-> <<>>]
  IN [raised |-> upd.raised, calls |-> upd.calls \o PlotSteps(ps, t)]

StepTail(ps, fig, uc, backend, t) ==
  LET upd == IF RedrawDue(t[1], uc)
             THEN UpdateRes(ps, fig, backend)
             ELSE [raised |-> "none", calls |-> <<>>]
  IN [raised |-> upd.raised, calls |-> PlotSteps(ps, t) \o upd.calls]

\* Whether the head of step() went through plt.pause (lines 104, 109).
Paused(h) == h.raised = "none" /\ h.calls # <<>> /\ h.calls[Len(h.calls)].call = "plt.pause"

(* ------------------------------- state -------------------------------- *)
VARIABLES
  pc,            \* "new": before the constructor; "ready"; "ctor_failed"
  plots_arg,     \* the plots argument the constructor was called with
  plots,         \* self._plots
  update_cycle,  \* self._update_cycle
  dark_mode,     \* self._dark_mode
  figure,        \* self._figure
  backend,       \* what matplotlib.get_backend() returns
  pending,       \* the step() suspended in plt.pause, if any, and its log so far
  lastOp,        \* the most recent call: name, argument, exception, call log
  nStepCalls,    \* number of step() calls made so far
  nInitRuns,     \* number of _initialize() runs so far
  nCreated,      \* number of plt.subplots() calls so far
  inited,        \* plots (by position) that have received initialize()
  kInOrder       \* the k of every step() so far was the number of earlier step() calls

vars == <<pc, plots_arg, plots, update_cycle, dark_mode, figure, backend,
          pending, lastOp, nStepCalls, nInitRuns, nCreated, inited, kInOrder>>

\* n: for a step(), its rank among the step() calls made; 0 otherwise.
Op(name, arg, n, raised, calls) ==
  [op |-> name, arg |-> arg, n |-> n, raised |-> raised, calls |-> calls]

NoPending == [active |-> FALSE, arg |-> <<>>, n |-> 0, calls |-> <<>>, nested |-> 0]

Count(calls, name) == Cardinality({i \in 1..Len(calls) : calls[i].call = name})

Init ==
  /\ pc = "new"
  /\ plots_arg = <<>>
  /\ plots = <<>>
  /\ update_cycle = 1
  /\ dark_mode = FALSE
  /\ figure = NoFigure
  /\ backend \in Backends
  /\ pending = NoPending
  /\ lastOp = Op("none", <<>>, 0, "none", <<>>)
  /\ nStepCalls = 0
  /\ nInitRuns = 0
  /\ nCreated = 0
  /\ inited = {}
  /\ kInOrder = TRUE

\* MotorDashboard(plots, update_cycle, dark_mode)
Construct ==
  /\ pc = "new"
  /\ \E p \in SeqsUpTo(PlotSpecs, MaxPlots), uc \in 1..MaxCycle, dm \in BOOLEAN :
       LET r == CtorRes(p) IN
       /\ plots_arg' = p
       /\ update_cycle' = uc
       /\ dark_mode' = dm
       /\ figure' = NoFigure
       /\ plots' = r.plots
       /\ pc' = IF r.raised = "none" THEN "ready" ELSE "ctor_failed"
       /\ lastOp' = Op("__init__", <<>>, 0, r.raised, <<Ev("plt.ion", 0, <<>>)>>)
  /\ UNCHANGED <<backend, pending, nStepCalls, nInitRuns, nCreated, inited, kInOrder>>

\* Bookkeeping over the calls a handler just issued.
Observe(calls) ==
  /\ nInitRuns' = nInitRuns + Count(calls, "plt.close")
  /\ nCreated' = nCreated + Count(calls, "plt.subplots")
  /\ inited' = inited \cup {calls[i].plot :
                              i \in {j \in 1..Len(calls) : calls[j].call = "initialize"}}

\* A public method can be called between two calls of the simulation loop,
\* or from a callback while a step() is suspended in plt.pause.
CanCall == pc = "ready" /\ (pending.active => pending.nested < MaxNested)

\* The calls of a handler that ran inside plt.pause go to the log of the
\* suspended step().
Callback(calls) ==
  pending' = IF pending.active
             THEN [pending EXCEPT !.calls = @ \o Nest(calls), !.nested = @ + 1]
             ELSE pending

Reset ==
  /\ CanCall
  /\ LET r == ResetRes(plots, figure) IN
       /\ figure' = r.figure
       /\ lastOp' = Op("reset", <<>>, 0, r.raised, r.calls)
       /\ Observe(r.calls)
       /\ Callback(r.calls)
  /\ UNCHANGED <<pc, plots_arg, plots, update_cycle, dark_mode, backend,
                 nStepCalls, kInOrder>>

SetModules ==
  /\ CanCall
  /\ \E m \in Modules :
       LET r == SetModulesRes(plots, figure, m) IN
       /\ figure' = r.figure
       /\ lastOp' = Op("set_modules", m, 0, r.raised, r.calls)
       /\ Observe(r.calls)
       /\ Callback(r.calls)
  /\ UNCHANGED <<pc, plots_arg, plots, update_cycle, dark_mode, backend,
                 nStepCalls, kInOrder>>

\* step(k, state, reference, action, reward, done), from its entry to its
\* return or, when it creates the surface, to the plt.pause of _initialize.
\* A step() entered from a callback is run to its return.
StepCall ==
  /\ CanCall
  /\ nStepCalls < MaxCalls
  /\ \E t \in StepTuples :
       LET h == StepHead(plots, figure, dark_mode) IN
       /\ figure' = h.figure
       /\ IF Paused(h) /\ ~pending.active
          THEN /\ lastOp' = Op("step.pause", t, nStepCalls + 1, "none", h.calls)
               /\ pending' = [active |-> TRUE, arg |-> t, n |-> nStepCalls + 1,
                              calls |-> h.calls, nested |-> 0]
               /\ Observe(h.calls)
          ELSE LET tl == IF h.raised # "none"
                         THEN [raised |-> h.raised, calls |-> <<>>]
                         ELSE StepTail(plots, h.figure, update_cycle, backend, t)
                   calls == h.calls \o tl.calls
               IN /\ lastOp' = Op("step", t, nStepCalls + 1, tl.raised, calls)
                  /\ Observe(calls)
                  /\ Callback(calls)
       /\ nStepCalls' = nStepCalls + 1
       /\ kInOrder' = (kInOrder /\ t[1] = nStepCalls)
  /\ UNCHANGED <<pc, plots_arg, plots, update_cycle, dark_mode, backend>>

\* plt.pause returns: the suspended step() runs lines 68-71 and returns.
StepResume ==
  /\ pc = "ready"
  /\ pending.active
  /\ LET tl == StepTail(plots, figure, update_cycle, backend, pending.arg) IN
       /\ lastOp' = Op("step", pending.arg, pending.n, tl.raised, pending.calls \o tl.calls)
       /\ Observe(tl.calls)
  /\ pending' = NoPending
  /\ UNCHANGED <<pc, plots_arg, plots, update_cycle, dark_mode, figure, backend,
                 nStepCalls, kInOrder>>

Next == Construct \/ Reset \/ SetModules \/ StepCall \/ StepResume

Spec == Init /\ [][Next]_vars

(* ----------------------------- properties ----------------------------- *)
Positions(calls, name) == {j \in 1..Len(calls) : calls[j].call = name}

\* The calls a handler issued itself, without those of the handlers that
\* callbacks ran while it was suspended.
Own(calls) == SelectSeq(calls, LAMBDA e : e.depth = 0)

\* The events of one kind, in the order they were issued.
Only(calls, name) == SelectSeq(calls, LAMBDA e : e.call = name)

\* One _update run ends in exactly one canvas.flush_events.
Redraws(calls) == Count(calls, "canvas.flush_events")

HasPlots == pc = "ready" /\ Len(plots) >= 1

\* A step() call that has returned or raised.
StepDone == lastOp.op = "step"

\* C1, as stated: with at least one plot, a step() call redraws exactly
\* when it is the update_cycle-th, 2*update_cycle-th, ... call to step(),
\* counted by the number of calls made.
C1_RedrawEveryCycleThCall ==
  (HasPlots /\ StepDone)
    => Redraws(Own(lastOp.calls)) = (IF lastOp.n % update_cycle = 0 THEN 1 ELSE 0)

\* C1, amended: with at least one plot, step(k, ...) triggers exactly one
\* redraw when (k + 1) mod update_cycle = 0 and none otherwise, whatever the
\* number of calls made; when every call passes for k the number of earlier
\* step() calls, that is exactly every update_cycle-th call.
C1_RedrawWhenKPlusOneDivides ==
  (HasPlots /\ StepDone)
    => /\ Redraws(Own(lastOp.calls))
            = (IF (lastOp.arg[1] + 1) % update_cycle = 0 THEN 1 ELSE 0)
       /\ kInOrder
            => Redraws(Own(lastOp.calls)) = (IF lastOp.n % update_cycle = 0 THEN 1 ELSE 0)

C1_Witness ==
  /\ HasPlots /\ StepDone /\ kInOrder
  /\ update_cycle >= 2 /\ lastOp.n = update_cycle /\ nStepCalls = update_cycle
  /\ Redraws(Own(lastOp.calls)) = 1

\* C2: with at least one plot, _initialize has run and the surface has
\* been created exactly once as soon as one step() call has been made, and
\* not at all before; no later step(), reset() or set_modules(), between
\* steps or from a callback during plt.pause, adds a run.
C2_SurfaceCreatedOnce ==
  HasPlots
    => /\ nCreated = (IF nStepCalls > 0 THEN 1 ELSE 0)
       /\ nInitRuns = nCreated
       /\ figure.set <=> nStepCalls > 0

C2_Witness ==
  /\ HasPlots /\ nStepCalls >= 2 /\ nCreated = 1
  /\ StepDone /\ lastOp.n = 1
  /\ \E j \in 1..Len(lastOp.calls) : lastOp.calls[j].depth = 1 /\ lastOp.calls[j].call = "step"

\* C3: a dashboard constructed with an empty plot list is constructed
\* without error; reset() and set_modules() on it do not raise; every
\* step() on it raises the AssertionError of _initialize, leaves _figure
\* None and runs no redraw.
C3_EmptyPlotsFailOnlyInStep ==
  (pc # "new" /\ plots_arg = <<>>)
    => /\ pc = "ready"
       /\ ~figure.set
       /\ ~pending.active
       /\ lastOp.op \in {"__init__", "reset", "set_modules", "step"}
       /\ lastOp.op \in {"__init__", "reset", "set_modules"} => lastOp.raised = "none"
       /\ StepDone
            => /\ lastOp.raised = "AssertionError"
               /\ Redraws(lastOp.calls) = 0
               /\ Positions(lastOp.calls, "update") = {}
               /\ nInitRuns = nStepCalls

C3_Witness ==
  /\ pc = "ready" /\ plots_arg = <<>>
  /\ StepDone /\ nStepCalls >= 2 /\ lastOp.raised = "AssertionError"

AllStrings(p) == \A i \in 1..Len(p) : p[i].type = "str"

\* The kind of plot the tag is specified to resolve to.
ExpectedKind(tag) ==
  IF tag = TagReward THEN "RewardPlot"
  ELSE IF \E n \in 0..Len(tag) : SubSeq(tag, 1, n) = ActionPrefix THEN "ActionPlot"
  ELSE "StatePlot"

\* C4: for a plots argument of string tags only, the constructor succeeds
\* and self._plots has the same length, the i-th plot being a reward plot
\* for 'reward', an action plot for a tag starting with 'action_', and a
\* state plot for any other tag.
C4_TagsResolveInOrder ==
  (pc # "new" /\ AllStrings(plots_arg))
    => /\ pc = "ready"
       /\ Len(plots) = Len(plots_arg)
       /\ \A i \in 1..Len(plots_arg) : plots[i].kind = ExpectedKind(plots_arg[i].val)

C4_Witness ==
  /\ pc = "ready"
  /\ plots_arg = <<StrSpec(TagReward), StrSpec(TagAction0), StrSpec(TagActionBare)>>
  /\ plots = <<Plot("RewardPlot", <<>>), Plot("ActionPlot", TagAction0),
               Plot("StatePlot", TagActionBare)>>

\* Whether a non-string element implements the Plot capability set.
ImplementsPlot(obj) == obj = PlotInstance

\* C5: the constructor fails if and only if some non-string element of
\* plots does not implement the Plot capability set; otherwise every
\* non-string element is appended, as it is, at its input position.
C5_PlotObjectsAccepted ==
  pc # "new"
    => LET objs == {i \in 1..Len(plots_arg) : plots_arg[i].type = "obj"} IN
       /\ pc = "ctor_failed" <=> \E i \in objs : ~ImplementsPlot(plots_arg[i])
       /\ pc = "ready"
            => /\ Len(plots) = Len(plots_arg)
               /\ \A i \in objs : plots[i] = Plot("object", plots_arg[i].val)

\* C6: every reset(), between steps or from a callback during plt.pause,
\* returns without raising, has called reset() once on each plot, in plot
\* order, and has left _figure, _plots, _update_cycle and _dark_mode as
\* they were; a reset() right after a reset() leaves the dashboard and its
\* plots' call counts as they were.
C6_ResetFrame ==
  [][lastOp'.op = "reset"
       => /\ lastOp'.raised = "none"
          /\ lastOp'.calls = [i \in 1..Len(plots) |-> Ev("reset", i, <<>>)]
          /\ UNCHANGED <<pc, figure, plots, update_cycle, dark_mode>>
          /\ lastOp.op = "reset"
               => UNCHANGED <<pc, plots_arg, plots, update_cycle, dark_mode, figure,
                              backend, lastOp, nStepCalls, nInitRuns, nCreated,
                              inited, kInOrder>>]_vars

C6_Witness ==
  /\ lastOp.op = "reset" /\ Len(plots) >= 2 /\ figure.set
  /\ pending.active /\ pending.nested = 1

\* C7: the step() that creates the surface for n >= 1 plots has asked for
\* n sub-axes and has called initialize() once on every plot, in plot
\* order, the i-th plot with the i-th axis, without _initialize raising; with
\* n = 1 the only plot gets the single axis.
C7_OneAxisPerPlot ==
  (HasPlots /\ lastOp.op \in {"step", "step.pause"} /\ lastOp.n = 1)
    => /\ lastOp.raised = "none"
       /\ Only(Own(lastOp.calls), "plt.subplots") = <<Ev("plt.subplots", 0, <<Len(plots)>>)>>
       /\ Only(Own(lastOp.calls), "initialize")
            = [i \in 1..Len(plots) |-> Ev("initialize", i, <<i>>)]
       /\ figure = Figure(Len(plots))
       /\ inited = 1..Len(plots)

C7_Witness ==
  /\ HasPlots /\ Len(plots) = 1 /\ StepDone /\ lastOp.n = 1
  /\ Only(lastOp.calls, "initialize") = <<Ev("initialize", 1, <<1>>)>>

\* C8: a step() call that returns normally has itself called step() once
\* on every plot, in plot order, each time with the tuple it was called
\* with, and every one of these calls precedes every update() call it
\* makes.
C8_StepFanout ==
  (pc = "ready" /\ StepDone /\ lastOp.raised = "none")
    => LET c == Own(lastOp.calls) IN
       /\ Only(c, "step") = [i \in 1..Len(plots) |-> Ev("step", i, lastOp.arg)]
       /\ \A s \in Positions(c, "step"), u \in Positions(c, "update") : s < u

C8_Witness ==
  /\ pc = "ready" /\ StepDone /\ lastOp.raised = "none"
  /\ Len(plots) >= 2
  /\ Positions(Own(lastOp.calls), "update") # {}
  /\ \E j \in 1..Len(lastOp.calls) : lastOp.calls[j].depth = 1 /\ lastOp.calls[j].call = "reset"

\* C9: a step() that redraws has called update() once on every plot, in
\* plot order, then canvas.draw() once if the backend is 'NbAgg' and not at
\* all otherwise, then canvas.flush_events() once, as its last call.
C9_UpdateOrder ==
  (HasPlots /\ StepDone /\ (lastOp.arg[1] + 1) % update_cycle = 0)
    => LET c == lastOp.calls
           o == Own(lastOp.calls)
           n == Len(plots)
           d == IF backend = "NbAgg" THEN 1 ELSE 0
       IN /\ lastOp.raised = "none"
          /\ Len(c) >= n + d + 1
          /\ SubSeq(c, Len(c) - n - d, Len(c) - d - 1) = [i \in 1..n |-> Ev("update", i, <<>>)]
          /\ d = 1 => c[Len(c) - 1] = Ev("canvas.draw", 0, <<>>)
          /\ c[Len(c)] = Ev("canvas.flush_events", 0, <<>>)
          /\ Count(o, "update") = n
          /\ Count(o, "canvas.draw") = d
          /\ Count(o, "canvas.flush_events") = 1

C9_Witness ==
  /\ HasPlots /\ StepDone /\ Len(plots) >= 2 /\ backend = "NbAgg"
  /\ Count(Own(lastOp.calls), "canvas.draw") = 1
  /\ lastOp.n >= 2

\* C10: a plot gets step() or update() only after it got initialize(),
\* earlier in the same call or in an earlier call, also when the step() or
\* update() comes from a callback during plt.pause; _update never runs with
\* _figure None.
C10_InitializedBeforeUse ==
  [][LET c == lastOp'.calls IN
     /\ \A j \in 1..Len(c) :
          c[j].call \in {"step", "update"}
            => \/ c[j].plot \in inited
               \/ \E h \in 1..(j - 1) : c[h].call = "initialize" /\ c[h].plot = c[j].plot
     /\ lastOp'.raised # "AttributeError"
     /\ Positions(c, "update") # {} => figure'.set]_vars

C10_Witness ==
  /\ HasPlots /\ Len(plots) >= 2 /\ StepDone /\ lastOp.n = 1
  /\ Positions(Own(lastOp.calls), "update") # {}
  /\ Positions(lastOp.calls, "initialize") # {}
  /\ \E j \in 1..Len(lastOp.calls) : lastOp.calls[j].depth = 1 /\ lastOp.calls[j].call = "update"

====
